---- MODULE Spec2Model ----
(***************************************************************************)
(* Model of scripts/swap-team1-goalie-gp-wg.py: the section-aware row      *)
(* normalizer swap_goalie_columns_in_rows, the staged file write           *)
(* write_csv_rows and the driver main.                                     *)
(*                                                                         *)
(* A cell is a sequence of one-character strings, a row is a sequence of   *)
(* cells.  Python's None is the empty tuple and a present Optional[int] n  *)
(* is <<n>>.  Column indices are 0-based as in the source; Cell(row, k)    *)
(* reads row[k].                                                           *)
(*                                                                         *)
(* Row objects: InputRow(k) is the list object at position k of the        *)
(* argument and CopyOf(k) the list object `row[:]` creates while that      *)
(* position is processed.  out_ref holds the objects appended to out, and  *)
(* rows_now the cells the argument's row objects hold now.                 *)
(***************************************************************************)
EXTENDS Integers, Sequences, FiniteSets, TLC

VARIABLES rows, out, in_goalies, swapped_any, gp_idx, wg_idx,
          did_global_column_swap, pc, out_ref, rows_now

nvars == <<rows, out, in_goalies, swapped_any, gp_idx, wg_idx,
           did_global_column_swap, pc, out_ref, rows_now>>

\* the file system and main's locals
VARIABLES dir_exists, fs, orig, paths, path, updated, checked, changed,
          written, printed, mpc

mvars == <<dir_exists, fs, orig, paths, path, updated, checked, changed,
           written, printed, mpc>>

vars == <<nvars, mvars>>

-----------------------------------------------------------------------------
(* Bounds *)

MaxRows == 5

-----------------------------------------------------------------------------
(* Cells and rows used as inputs *)

None == <<>>
Some(n) == <<n>>

sGoalies == <<"G", "o", "a", "l", "i", "e", "s">>
sSkaters == <<"S", "k", "a", "t", "e", "r", "s">>
sPos == <<"P", "o", "s">>
sGP == <<"G", "P">>
sWG == <<"W", "-", "G">>
sG == <<"G">>
sTotals == <<"T", "o", "t", "a", "l", "s">>

GoaliesMarker == <<sGoalies>>
SkatersMarker == <<sSkaters>>
CanonicalHeader == <<sPos, sGP, sWG>>
ReversedHeader == <<sPos, sWG, sGP>>
\* GP "20", W-G "25": wins exceed games
RowInverted == <<sG, <<"2", "0">>, <<"2", "5">>>>
\* GP "30", W-G "12-9": composite W-G cell, prefix 12
RowValid == <<sTotals, <<"3", "0">>, <<"1", "2", "-", "9">>>>
\* GP "15", W-G "15": equal cells
RowEqual == <<sG, <<"1", "5">>, <<"1", "5">>>>
\* GP "", W-G " 7": empty GP cell, whitespace before the W-G digits
RowEmptyGP == <<sG, <<>>, <<" ", "7">>>>
\* GP "9", W-G "-": W-G cell without a leading digit
RowDashWG == <<sG, <<"9">>, <<"-">>>>
\* a "Pos" row that names GP but not W-G; also too short for index 2
ShortHeader == <<sPos, sGP>>
EmptyRow == <<>>

RowAlphabet ==
  { GoaliesMarker, SkatersMarker, CanonicalHeader, ReversedHeader,
    RowInverted, RowValid, RowEqual, RowEmptyGP, RowDashWG,
    ShortHeader, EmptyRow }

-----------------------------------------------------------------------------
(* _parse_int_prefix *)

Digits == {"0", "1", "2", "3", "4", "5", "6", "7", "8", "9"}

Whitespace == {" ", "\t", "\n", "\r", "\f"}

DigitVal(c) ==
  CASE c = "0" -> 0 [] c = "1" -> 1 [] c = "2" -> 2 [] c = "3" -> 3
    [] c = "4" -> 4 [] c = "5" -> 5 [] c = "6" -> 6 [] c = "7" -> 7
    [] c = "8" -> 8 [] c = "9" -> 9

\* \s* : position of the first character at or after k that is not whitespace
RECURSIVE SkipSpace(_, _)
SkipSpace(value, k) ==
  IF k <= Len(value) /\ value[k] \in Whitespace
    THEN SkipSpace(value, k + 1)
    ELSE k

\* (\d+) : the longest run of digits starting at k (empty when there is none)
RECURSIVE DigitRun(_, _)
DigitRun(value, k) ==
  IF k <= Len(value) /\ value[k] \in Digits
    THEN <<value[k]>> \o DigitRun(value, k + 1)
    ELSE <<>>

\* int() of a non-empty digit string
RECURSIVE IntOf(_)
IntOf(ds) ==
  IF ds = <<>> THEN 0
  ELSE 10 * IntOf(SubSeq(ds, 1, Len(ds) - 1)) + DigitVal(ds[Len(ds)])

\* variant: a missing prefix read as 0 instead of None
ParseIntPrefixZero(value) ==
  LET ds == DigitRun(value, SkipSpace(value, 1))
  IN  IF ds = <<>> THEN Some(0) ELSE Some(IntOf(ds))

parse_int_prefix(value) ==
  IF value = <<>> THEN None
  ELSE LET ds == DigitRun(value, SkipSpace(value, 1))
       IN  IF ds = <<>> THEN None ELSE Some(IntOf(ds))

-----------------------------------------------------------------------------
(* swap_goalie_columns_in_rows: the loop body as a function of the locals *)

Max(a, b) == IF a >= b THEN a ELSE b

\* "x in row"
Contains(row, x) == \E k \in 1..Len(row) : row[k] = x

\* row.index(x): 0-based position of the first occurrence
Index(row, x) ==
  (CHOOSE k \in 1..Len(row) :
      row[k] = x /\ \A j \in 1..(k - 1) : row[j] # x) - 1

\* 0-based subscript is inside the list
IndexOK(row, k) == k >= 0 /\ k < Len(row)

Cell(row, k) == row[k + 1]

\* variant: the first cell assigned without the exchange
SwapCellsOverwrite(row, a, b) ==
  [row EXCEPT ![a + 1] = row[b + 1]]

\* row[a], row[b] = row[b], row[a]
SwapCells(row, a, b) ==
  [row EXCEPT ![a + 1] = row[b + 1], ![b + 1] = row[a + 1]]

\* the list object at position k of the argument
InputRow(k) == <<"input", k>>

\* the list object row[:] creates in the iteration on position k
CopyOf(k) == <<"copy", k>>

\* The locals of the function at the top of the loop
InitLocals ==
  [ out |-> <<>>, in_goalies |-> FALSE, swapped_any |-> FALSE,
    gp_idx |-> None, wg_idx |-> None, did_global_column_swap |-> FALSE,
    raised |-> FALSE, out_ref |-> <<>>, rows_now |-> <<>> ]

\* an IndexError leaves the function: nothing is returned
Raise(s) == [s EXCEPT !.raised = TRUE]

\* out.append(row), row being the object the loop took from the argument
Emit(s, row) ==
  [s EXCEPT !.out = Append(@, row),
            !.out_ref = Append(@, InputRow(Len(s.out) + 1)),
            !.rows_now = Append(@, row)]

\* variant: the cells exchanged in the argument's own row object
SwapInPlace(s, row, a, b) ==
  [s EXCEPT !.out = Append(@, SwapCells(row, a, b)),
            !.out_ref = Append(@, InputRow(Len(s.out) + 1)),
            !.rows_now = Append(@, SwapCells(row, a, b))]

\* row = row[:]; row[a], row[b] = row[b], row[a]; out.append(row)
SwapInCopy(s, row, a, b) ==
  [s EXCEPT !.out = Append(@, SwapCells(row, a, b)),
            !.out_ref = Append(@, CopyOf(Len(s.out) + 1)),
            !.rows_now = Append(@, row)]

IsGoaliesMarker(row) == Len(row) = 1 /\ row[1] = sGoalies

IsSkatersMarker(row) == Len(row) = 1 /\ row[1] = sSkaters

\* variant: the indices kept across the "Goalies" marker
EnterGoaliesKeepIndices(s, row) ==
  [Emit(s, row) EXCEPT !.in_goalies = TRUE]

EnterGoalies(s, row) ==
  [Emit(s, row) EXCEPT !.in_goalies = TRUE, !.gp_idx = None, !.wg_idx = None]

LeaveGoalies(s, row) ==
  [Emit(s, row) EXCEPT !.in_goalies = FALSE, !.gp_idx = None, !.wg_idx = None]

\* variant: the in_goalies test dropped
NotInGoaliesNever(s) == FALSE

NotInGoalies(s) == ~s.in_goalies

IsGoalieHeader(row) ==
  row # <<>> /\ row[1] = sPos /\ Contains(row, sGP) /\ Contains(row, sWG)

\* variant: the header cells swapped, the remembered indices not
GoalieHeaderIndicesKept(s, row) ==
  LET g == Index(row, sGP)
      w == Index(row, sWG)
  IN  IF w < g
        THEN [SwapInCopy(s, row, g, w) EXCEPT
                       !.swapped_any = TRUE,
                       !.did_global_column_swap = TRUE,
                       !.gp_idx = Some(g), !.wg_idx = Some(w)]
        ELSE [Emit(s, row) EXCEPT !.gp_idx = Some(g), !.wg_idx = Some(w)]

GoalieHeader(s, row) ==
  LET g == Index(row, sGP)
      w == Index(row, sWG)
  IN  IF w < g
        THEN [SwapInCopy(s, row, g, w) EXCEPT
                       !.swapped_any = TRUE,
                       !.did_global_column_swap = TRUE,
                       !.gp_idx = Some(w), !.wg_idx = Some(g)]
        ELSE [Emit(s, row) EXCEPT !.gp_idx = Some(g), !.wg_idx = Some(w)]

\* variant: the row-length tests dropped
IndicesCoverAlways(s, row) ==
  s.gp_idx # None /\ s.wg_idx # None

IndicesCover(s, row) ==
  /\ s.gp_idx # None
  /\ s.wg_idx # None
  /\ row # <<>>
  /\ Max(s.gp_idx[1], s.wg_idx[1]) < Len(row)

\* variant: the unconditional swap dropped
GlobalSwapSkipped(s, row) == Emit(s, row)

GlobalSwap(s, row) ==
  IF IndexOK(row, s.gp_idx[1]) /\ IndexOK(row, s.wg_idx[1])
    THEN [SwapInCopy(s, row, s.gp_idx[1], s.wg_idx[1]) EXCEPT
                   !.swapped_any = TRUE]
    ELSE Raise(s)

\* variant: the per-row swap without swapped_any = True
InvertedSwapUnmarked(s, row) ==
  SwapInCopy(s, row, s.gp_idx[1], s.wg_idx[1])

InvertedSwap(s, row) ==
  [SwapInCopy(s, row, s.gp_idx[1], s.wg_idx[1]) EXCEPT !.swapped_any = TRUE]

\* variant: the comparison turned round
ValuesInvertedReversed(gp_val, wg_val) ==
  gp_val # None /\ wg_val # None /\ wg_val[1] < gp_val[1]

ValuesInverted(gp_val, wg_val) ==
  gp_val # None /\ wg_val # None /\ wg_val[1] > gp_val[1]

PerRowFix(s, row) ==
  IF IndexOK(row, s.gp_idx[1]) /\ IndexOK(row, s.wg_idx[1])
    THEN LET gp_val == parse_int_prefix(Cell(row, s.gp_idx[1]))
             wg_val == parse_int_prefix(Cell(row, s.wg_idx[1]))
         IN  IF ValuesInverted(gp_val, wg_val)
               THEN InvertedSwap(s, row)
               ELSE Emit(s, row)
    ELSE Raise(s)

NormalizeRow(s, row) ==
  IF IndicesCover(s, row)
    THEN IF s.did_global_column_swap
           THEN GlobalSwap(s, row)
           ELSE PerRowFix(s, row)
    ELSE Emit(s, row)

\* which branch of the loop body a row takes
Branch(s, row) ==
  IF IsGoaliesMarker(row) THEN "goalies"
  ELSE IF IsSkatersMarker(row) THEN "skaters"
  ELSE IF NotInGoalies(s) THEN "outside"
  ELSE IF IsGoalieHeader(row) THEN "header"
  ELSE "data"

LoopBody(s, row) ==
  CASE Branch(s, row) = "goalies" -> EnterGoalies(s, row)
    [] Branch(s, row) = "skaters" -> LeaveGoalies(s, row)
    [] Branch(s, row) = "outside" -> Emit(s, row)
    [] Branch(s, row) = "header" -> GoalieHeader(s, row)
    [] Branch(s, row) = "data" -> NormalizeRow(s, row)

\* the locals after the first k rows of input
RECURSIVE RunLoop(_, _)
RunLoop(input, k) ==
  IF k = 0 THEN InitLocals
  ELSE LET s == RunLoop(input, k - 1)
       IN  IF s.raised THEN s ELSE LoopBody(s, input[k])

\* the function's result: (out, swapped_any), or raised
swap_goalie_columns_in_rows(input) ==
  LET s == RunLoop(input, Len(input))
  IN  [out |-> s.out, swapped |-> s.swapped_any, raised |-> s.raised]

-----------------------------------------------------------------------------
(* The normalizer as a state machine: one step per loop iteration.        *)
(* `for row in rows` reads the list strictly left to right and never      *)
(* looks ahead, so the argument is drawn one row at a time: rows is the   *)
(* part of the argument iterated so far and Return ends the argument.     *)

Locals ==
  [ out |-> out, in_goalies |-> in_goalies, swapped_any |-> swapped_any,
    gp_idx |-> gp_idx, wg_idx |-> wg_idx,
    did_global_column_swap |-> did_global_column_swap,
    raised |-> (pc = "raised"), out_ref |-> out_ref,
    rows_now |-> rows_now ]

\* main is not running
MainIdle ==
  /\ dir_exists = FALSE
  /\ fs = <<>>
  /\ orig = <<>>
  /\ paths = <<>>
  /\ path = <<>>
  /\ updated = <<>>
  /\ checked = 0
  /\ changed = 0
  /\ written = <<>>
  /\ printed = None
  /\ mpc = "idle"

NormInit ==
  /\ MainIdle
  /\ rows = <<>>
  /\ out = InitLocals.out
  /\ in_goalies = InitLocals.in_goalies
  /\ swapped_any = InitLocals.swapped_any
  /\ gp_idx = InitLocals.gp_idx
  /\ wg_idx = InitLocals.wg_idx
  /\ did_global_column_swap = InitLocals.did_global_column_swap
  /\ out_ref = InitLocals.out_ref
  /\ rows_now = InitLocals.rows_now
  /\ pc = "loop"

Assign(s) ==
  /\ out' = s.out
  /\ in_goalies' = s.in_goalies
  /\ swapped_any' = s.swapped_any
  /\ gp_idx' = s.gp_idx
  /\ wg_idx' = s.wg_idx
  /\ did_global_column_swap' = s.did_global_column_swap
  /\ out_ref' = s.out_ref
  /\ rows_now' = s.rows_now
  /\ pc' = IF s.raised THEN "raised" ELSE "loop"
  /\ UNCHANGED mvars

\* one iteration of the for loop on the next row of the argument
Iterate(row) ==
  /\ rows' = Append(rows, row)
  /\ Assign(LoopBody(Locals, row))

GoaliesRow ==
  /\ pc = "loop"
  /\ Len(rows) < MaxRows
  /\ \E row \in RowAlphabet :
       Branch(Locals, row) = "goalies" /\ Iterate(row)

SkatersRow ==
  /\ pc = "loop"
  /\ Len(rows) < MaxRows
  /\ \E row \in RowAlphabet :
       Branch(Locals, row) = "skaters" /\ Iterate(row)

OutsideRow ==
  /\ pc = "loop"
  /\ Len(rows) < MaxRows
  /\ \E row \in RowAlphabet :
       Branch(Locals, row) = "outside" /\ Iterate(row)

HeaderRow ==
  /\ pc = "loop"
  /\ Len(rows) < MaxRows
  /\ \E row \in RowAlphabet :
       Branch(Locals, row) = "header" /\ Iterate(row)

DataRow ==
  /\ pc = "loop"
  /\ Len(rows) < MaxRows
  /\ \E row \in RowAlphabet :
       Branch(Locals, row) = "data" /\ Iterate(row)

Return ==
  /\ pc = "loop"
  /\ pc' = "returned"
  /\ UNCHANGED <<rows, out, in_goalies, swapped_any, gp_idx, wg_idx,
                 did_global_column_swap, out_ref, rows_now>>
  /\ UNCHANGED mvars

NormNext ==
  \/ GoaliesRow
  \/ SkatersRow
  \/ OutsideRow
  \/ HeaderRow
  \/ DataRow
  \/ Return

SpecNorm == NormInit /\ [][NormNext]_vars

-----------------------------------------------------------------------------
(* File names: a name is a sequence of one-character strings *)

str_regular == <<"r", "e", "g", "u", "l", "a", "r">>
str_playoffs == <<"p", "l", "a", "y", "o", "f", "f", "s">>
str_goalies == <<"g", "o", "a", "l", "i", "e", "s">>

SEASON_MIN == 2012
SEASON_MAX == 2024
REPORTS == {str_regular, str_playoffs}

DotCsv == <<".", "c", "s", "v">>
DotTmp == <<".", "t", "m", "p">>

y2011 == <<"2", "0", "1", "1">>
y2012 == <<"2", "0", "1", "2">>
y2013 == <<"2", "0", "1", "3">>
y2014 == <<"2", "0", "1", "4">>
y2015 == <<"2", "0", "1", "5">>
y2024 == <<"2", "0", "2", "4">>
y2025 == <<"2", "0", "2", "5">>
y2026 == <<"2", "0", "2", "6">>

FileName(report, startYear, endYear) ==
  report \o <<"-">> \o startYear \o <<"-">> \o endYear \o DotCsv

\* the *.csv names that may lie in the team folder
Names ==
  { FileName(str_playoffs, y2014, y2015),
    FileName(str_regular, y2012, y2013),
    FileName(str_regular, y2024, y2025),
    FileName(str_regular, y2025, y2026),
    FileName(str_regular, y2011, y2012),
    FileName(str_goalies, y2014, y2015) }

\* variant: staging in place, on the final path
TmpPathInPlace(p) == p

\* path.with_suffix(path.suffix + ".tmp")
TmpPath(p) == p \o DotTmp

\* a staging file left behind by an earlier, interrupted run
StaleTmp == FileName(str_playoffs, y2014, y2015) \o DotTmp

AllNames == Names \cup {TmpPath(n) : n \in Names} \cup {StaleTmp}

\* FILENAME_RE.match(filename): the groups (report, start year), or None
FilenameMatch(filename) ==
  LET hits ==
        { r \in {str_regular, str_playoffs} :
            /\ Len(filename) = Len(r) + 14
            /\ SubSeq(filename, 1, Len(r)) = r
            /\ filename[Len(r) + 1] = "-"
            /\ \A k \in 2..5 : filename[Len(r) + k] \in Digits
            /\ filename[Len(r) + 6] = "-"
            /\ \A k \in 7..10 : filename[Len(r) + k] \in Digits
            /\ SubSeq(filename, Len(r) + 11, Len(r) + 14) = DotCsv }
  IN  IF hits = {} THEN None
      ELSE LET r == CHOOSE x \in hits : TRUE
           IN  Some(<<r, SubSeq(filename, Len(r) + 2, Len(r) + 5)>>)

parse_season_from_filename(filename) ==
  LET m == FilenameMatch(filename)
  IN  IF m = None THEN None ELSE Some(<<m[1][1], IntOf(m[1][2])>>)

\* the three filters of main's loop: the file is examined
IsCandidate(name) ==
  LET parsed == parse_season_from_filename(name)
  IN  /\ parsed # None
      /\ parsed[1][1] \in REPORTS
      /\ SEASON_MIN <= parsed[1][2]
      /\ parsed[1][2] <= SEASON_MAX

\* glob("*.csv")
EndsWithCsv(name) ==
  Len(name) >= Len(DotCsv)
  /\ SubSeq(name, Len(name) - Len(DotCsv) + 1, Len(name)) = DotCsv

\* sorted(): names compare character by character in code-point order
CharOrder ==
  <<"-", ".", "0", "1", "2", "3", "4", "5", "6", "7", "8", "9",
    "a", "b", "c", "d", "e", "f", "g", "h", "i", "j", "k", "l", "m",
    "n", "o", "p", "q", "r", "s", "t", "u", "v", "w", "x", "y", "z">>

Ord(c) == CHOOSE k \in 1..Len(CharOrder) : CharOrder[k] = c

RECURSIVE StrLess(_, _)
StrLess(a, b) ==
  IF b = <<>> THEN FALSE
  ELSE IF a = <<>> THEN TRUE
  ELSE IF a[1] # b[1] THEN Ord(a[1]) < Ord(b[1])
  ELSE StrLess(Tail(a), Tail(b))

RECURSIVE Sorted(_)
Sorted(S) ==
  IF S = {} THEN <<>>
  ELSE LET m == CHOOSE x \in S : \A y \in S \ {x} : StrLess(x, y)
       IN  <<m>> \o Sorted(S \ {m})

-----------------------------------------------------------------------------
(* File contents.  A file on disk is held as its sequence of records, the *)
(* unit csv.reader returns and writer.writerow appends; Some(records) is  *)
(* an existing file and None a missing one.                               *)

FileNoGoalies == <<SkatersMarker, CanonicalHeader, RowInverted>>
FileReversed == <<GoaliesMarker, ReversedHeader, RowInverted, RowValid>>
FileCanonical == <<GoaliesMarker, CanonicalHeader, RowValid, RowEqual>>

Contents == {FileNoGoalies, FileReversed, FileCanonical}

\* read_csv_rows
read_csv_rows(files, p) == files[p][1]

\* variant: every examined file rewritten
ShouldWriteAlways(result) == TRUE

\* rewrite only when the normalizer reported a change
ShouldWrite(result) == result.swapped

-----------------------------------------------------------------------------
(* main and write_csv_rows as a state machine *)

NormIdle ==
  /\ rows = <<>>
  /\ out = <<>>
  /\ in_goalies = FALSE
  /\ swapped_any = FALSE
  /\ gp_idx = None
  /\ wg_idx = None
  /\ did_global_column_swap = FALSE
  /\ out_ref = <<>>
  /\ rows_now = <<>>
  /\ pc = "idle"

MainInit ==
  /\ NormIdle
  /\ dir_exists \in BOOLEAN
  /\ \E f \in [Names -> {None} \cup {Some(c) : c \in Contents}], stale \in BOOLEAN :
       fs = [n \in AllNames |->
               IF ~dir_exists THEN None
               ELSE IF n \in Names THEN f[n]
               ELSE IF n = StaleTmp /\ stale THEN Some(<<EmptyRow>>)
               ELSE None]
  /\ orig = fs
  /\ paths = <<>>
  /\ path = <<>>
  /\ updated = <<>>
  /\ checked = 0
  /\ changed = 0
  /\ written = <<>>
  /\ printed = None
  /\ mpc = "start"

\* variant: the SystemExit dropped, main goes on to an empty glob
MissingFolderContinues ==
  /\ mpc = "start"
  /\ ~dir_exists
  /\ mpc' = "loop"
  /\ UNCHANGED <<dir_exists, fs, orig, paths, path, updated, checked, changed,
                 written, printed>>
  /\ UNCHANGED nvars

\* team_dir does not exist: SystemExit
MissingFolder ==
  /\ mpc = "start"
  /\ ~dir_exists
  /\ mpc' = "exit"
  /\ UNCHANGED <<dir_exists, fs, orig, paths, path, updated, checked, changed,
                 written, printed>>
  /\ UNCHANGED nvars

\* changed = 0; checked = 0; sorted(team_dir.glob("*.csv"))
Scan ==
  /\ mpc = "start"
  /\ dir_exists
  /\ changed' = 0
  /\ checked' = 0
  /\ paths' = Sorted({n \in DOMAIN fs : fs[n] # None /\ EndsWithCsv(n)})
  /\ mpc' = "loop"
  /\ UNCHANGED <<dir_exists, fs, orig, path, updated, written, printed>>
  /\ UNCHANGED nvars

\* one of the three `continue`s
SkipFile ==
  /\ mpc = "loop"
  /\ paths # <<>>
  /\ ~IsCandidate(Head(paths))
  /\ paths' = Tail(paths)
  /\ UNCHANGED <<dir_exists, fs, orig, path, updated, checked, changed,
                 written, printed, mpc>>
  /\ UNCHANGED nvars

\* checked += 1; read; normalize; enter write_csv_rows when swapped
Examine ==
  /\ mpc = "loop"
  /\ paths # <<>>
  /\ IsCandidate(Head(paths))
  /\ checked' = checked + 1
  /\ paths' = Tail(paths)
  /\ LET result == swap_goalie_columns_in_rows(read_csv_rows(fs, Head(paths)))
     IN  IF result.raised
           THEN mpc' = "error" /\ UNCHANGED <<path, updated>>
           ELSE IF ShouldWrite(result)
             THEN /\ path' = Head(paths)
                  /\ updated' = result.out
                  /\ mpc' = "open_tmp"
             ELSE mpc' = "loop" /\ UNCHANGED <<path, updated>>
  /\ UNCHANGED <<dir_exists, fs, orig, changed, written, printed>>
  /\ UNCHANGED nvars

\* tmp_path.open("w"): creates the staging file or truncates an old one
OpenTmp ==
  /\ mpc = "open_tmp"
  /\ fs' = [fs EXCEPT ![TmpPath(path)] = Some(<<>>)]
  /\ mpc' = "write_rows"
  /\ UNCHANGED <<dir_exists, orig, paths, path, updated, checked, changed,
                 written, printed>>
  /\ UNCHANGED nvars

\* writer.writerow(row) for the next row
WriteRow ==
  /\ mpc = "write_rows"
  /\ Len(fs[TmpPath(path)][1]) < Len(updated)
  /\ fs' = [fs EXCEPT ![TmpPath(path)] =
              Some(Append(@[1], updated[Len(@[1]) + 1]))]
  /\ UNCHANGED <<dir_exists, orig, paths, path, updated, checked, changed,
                 written, printed, mpc>>
  /\ UNCHANGED nvars

\* end of the with block: the staging file is complete and closed
CloseTmp ==
  /\ mpc = "write_rows"
  /\ Len(fs[TmpPath(path)][1]) = Len(updated)
  /\ mpc' = "replace"
  /\ UNCHANGED <<dir_exists, fs, orig, paths, path, updated, checked, changed,
                 written, printed>>
  /\ UNCHANGED nvars

\* os.replace(tmp_path, path), return to main, changed += 1
Replace ==
  /\ mpc = "replace"
  /\ fs' = [n \in DOMAIN fs |->
              IF n = path THEN fs[TmpPath(path)]
              ELSE IF n = TmpPath(path) THEN None
              ELSE fs[n]]
  /\ written' = Append(written, path)
  /\ changed' = changed + 1
  /\ mpc' = "loop"
  /\ UNCHANGED <<dir_exists, orig, paths, path, updated, checked, printed>>
  /\ UNCHANGED nvars

\* an OSError while opening, writing, closing or renaming the staging file
\* propagates out of main; whatever was staged stays where it is
WriteFails ==
  /\ mpc \in {"open_tmp", "write_rows", "replace"}
  /\ mpc' = "error"
  /\ UNCHANGED <<dir_exists, fs, orig, paths, path, updated, checked, changed,
                 written, printed>>
  /\ UNCHANGED nvars

\* print(f"Checked {checked} files; updated {changed}."); return 0
Finish ==
  /\ mpc = "loop"
  /\ paths = <<>>
  /\ printed' = Some(<<checked, changed>>)
  /\ mpc' = "done"
  /\ UNCHANGED <<dir_exists, fs, orig, paths, path, updated, checked, changed,
                 written>>
  /\ UNCHANGED nvars

MainNext ==
  \/ MissingFolder
  \/ Scan
  \/ SkipFile
  \/ Examine
  \/ OpenTmp
  \/ WriteRow
  \/ CloseTmp
  \/ Replace
  \/ WriteFails
  \/ Finish

SpecMain == MainInit /\ [][MainNext]_vars

-----------------------------------------------------------------------------
(* The section structure of the argument, read off the input rows alone.  *)
(* Position k is 1-based: rows[k] is the k-th input row and out[k] the    *)
(* row emitted for it.  Every argument has a returned state, so the       *)
(* claims about the result are stated there.                              *)

IsMarker(row) == IsGoaliesMarker(row) \/ IsSkatersMarker(row)

\* the nearest section marker at or above row j (0: none)
RECURSIVE MarkerAtOrAbove(_)
MarkerAtOrAbove(j) ==
  IF j = 0 THEN 0
  ELSE IF IsMarker(rows[j]) THEN j
  ELSE MarkerAtOrAbove(j - 1)

\* the nearest section marker above row k (0: none)
LastMarker(k) == MarkerAtOrAbove(k - 1)

\* row k is not a marker and the nearest marker above it is "Goalies"
InGoaliesSpan(k) ==
  /\ ~IsMarker(rows[k])
  /\ LET m == LastMarker(k)
     IN  m > 0 /\ IsGoaliesMarker(rows[m])

\* the nearest goalie header row at or above row j, not crossing a marker
RECURSIVE HeaderAtOrAbove(_)
HeaderAtOrAbove(j) ==
  IF j = 0 THEN 0
  ELSE IF IsMarker(rows[j]) THEN 0
  ELSE IF IsGoalieHeader(rows[j]) THEN j
  ELSE HeaderAtOrAbove(j - 1)

\* the nearest goalie header row of row k's section above row k (0: none)
LastHeader(k) == HeaderAtOrAbove(k - 1)

\* the goalie header rows of row k's section above row k
SectionHeaders(k) ==
  {j \in (LastMarker(k) + 1)..(k - 1) : IsGoalieHeader(rows[j])}

\* the first goalie header row of the section, rows up to j (0: none)
RECURSIVE FirstHeaderUpTo(_)
FirstHeaderUpTo(j) ==
  IF j = 0 THEN 0
  ELSE IF IsMarker(rows[j]) THEN 0
  ELSE LET above == FirstHeaderUpTo(j - 1)
       IN  IF above > 0 THEN above
           ELSE IF IsGoalieHeader(rows[j]) THEN j ELSE 0

HeaderReversed(row) == Index(row, sWG) < Index(row, sGP)

\* row k lies in a Goalies section whose first header, row k included, is
\* reversed
ReversedSection(k) ==
  /\ InGoaliesSpan(k)
  /\ LET f == FirstHeaderUpTo(k)
     IN  f > 0 /\ HeaderReversed(rows[f])

\* the two tracked positions (0-based) that the nearest header above row k
\* establishes: the smaller is the canonical GP position, the larger W-G
LowIdx(k) ==
  LET h == rows[LastHeader(k)]
      g == Index(h, sGP)
      w == Index(h, sWG)
  IN  IF g < w THEN g ELSE w

HighIdx(k) ==
  LET h == rows[LastHeader(k)]
      g == Index(h, sGP)
      w == Index(h, sWG)
  IN  IF g < w THEN w ELSE g

\* a row of a Goalies section below a header, not itself a header
IsDataRow(k) ==
  ~IsGoalieHeader(rows[k]) /\ LastHeader(k) > 0 /\ InGoaliesSpan(k)

\* data row k is long enough for both tracked positions
Covers(k) == HighIdx(k) < Len(rows[k])

\* row with the cells at 0-based positions a and b exchanged
Exchanged(row, a, b) ==
  [j \in 1..Len(row) |->
     IF j = a + 1 THEN row[b + 1] ELSE IF j = b + 1 THEN row[a + 1] ELSE row[j]]

\* optional whitespace, then at least one digit
HasIntPrefix(cell) ==
  \E p \in 1..Len(cell) :
    cell[p] \in Digits /\ \A q \in 1..(p - 1) : cell[q] \in Whitespace

\* a reversed header lies inside a Goalies span at or above row j
RECURSIVE ReversedHeaderAtOrAbove(_)
ReversedHeaderAtOrAbove(j) ==
  IF j = 0 THEN FALSE
  ELSE \/ /\ IsGoalieHeader(rows[j])
          /\ HeaderReversed(rows[j])
          /\ InGoaliesSpan(j)
       \/ ReversedHeaderAtOrAbove(j - 1)

\* a reversed header has been processed when row k is reached
ReversedHeaderAbove(k) == ReversedHeaderAtOrAbove(k - 1)

-----------------------------------------------------------------------------
(* C1 *)

\* C1: idempotence.  Normalizing the returned rows a second time reports no
\* change and returns them row for row, cell for cell.
C1_Idempotent ==
  pc = "returned" =>
    LET again == swap_goalie_columns_in_rows(out)
    IN  ~again.raised /\ ~again.swapped /\ again.out = out

-----------------------------------------------------------------------------
(* C2 *)

\* C2: in a Goalies section whose header rows all list GP before W-G (also
\* when an earlier section had a reversed header), a data row covering both
\* positions is emitted exchanged exactly when both tracked cells have an
\* integer prefix and the W-G prefix is greater than the GP prefix, and is
\* emitted as it came otherwise.
C2_CanonicalSectionRule ==
  pc = "returned" =>
    \A k \in 1..Len(out) :
      ( /\ IsDataRow(k)
        /\ Covers(k)
        /\ \A j \in SectionHeaders(k) : ~HeaderReversed(rows[j]) )
      => LET gp_val == parse_int_prefix(Cell(rows[k], LowIdx(k)))
             wg_val == parse_int_prefix(Cell(rows[k], HighIdx(k)))
         IN  out[k] = IF /\ gp_val # None
                         /\ wg_val # None
                         /\ wg_val[1] > gp_val[1]
                        THEN Exchanged(rows[k], LowIdx(k), HighIdx(k))
                        ELSE rows[k]

-----------------------------------------------------------------------------
(* C3 *)

\* C3 as stated: in a Goalies section whose header is reversed, every row
\* from the header to the next marker or the end of the input is emitted
\* with the cells at the two tracked positions exchanged.
C3_EveryRowExchanged ==
  pc = "returned" =>
    \A k \in 1..Len(out) :
      ReversedSection(k)
      => IF IsGoalieHeader(rows[k])
           THEN out[k] = Exchanged(rows[k], Index(rows[k], sGP),
                                   Index(rows[k], sWG))
           ELSE Covers(k) /\ out[k] = Exchanged(rows[k], LowIdx(k), HighIdx(k))

\* C3 amended: in a Goalies section whose header is reversed, every reversed
\* header row, and every later row of the section that is not a header row
\* and is long enough to cover both tracked positions, is emitted with the
\* two cells exchanged; a row too short for the positions and a later header
\* row already in canonical order are emitted as they came.
C3_ReversedSectionExchanged ==
  pc = "returned" =>
    \A k \in 1..Len(out) :
      ReversedSection(k)
      => IF IsGoalieHeader(rows[k])
           THEN out[k] = IF HeaderReversed(rows[k])
                           THEN Exchanged(rows[k], Index(rows[k], sGP),
                                          Index(rows[k], sWG))
                           ELSE rows[k]
           ELSE out[k] = IF Covers(k)
                           THEN Exchanged(rows[k], LowIdx(k), HighIdx(k))
                           ELSE rows[k]

\* a returned pass in which a reversed header and a Totals row below it
\* came out changed
C3_Witness ==
  /\ pc = "returned"
  /\ \E k \in 1..Len(out) :
       /\ rows[k] = RowValid
       /\ out[k] # rows[k]
       /\ ReversedSection(k)
       /\ out[LastHeader(k)] # rows[LastHeader(k)]

-----------------------------------------------------------------------------
(* C4 *)

\* C4: scoping.  Every marker row and every row outside a Goalies span is
\* emitted identical to the input row.
C4_OutsideUntouched ==
  pc = "returned" =>
    \A k \in 1..Len(out) :
      (IsMarker(rows[k]) \/ ~InGoaliesSpan(k)) => out[k] = rows[k]

\* a returned pass with a reversed header and an inverted data row lying
\* after a "Skaters" marker that closed a Goalies section
C4_Witness ==
  /\ pc = "returned"
  /\ \E k \in 2..(Len(out) - 1) :
       /\ rows[k] = ReversedHeader
       /\ rows[k + 1] = RowInverted
       /\ LastMarker(k) > 0
       /\ IsSkatersMarker(rows[LastMarker(k)])
       /\ \E j \in 1..LastMarker(k) : IsGoaliesMarker(rows[j])

-----------------------------------------------------------------------------
(* C5 *)

\* C5: the returned flag is exact: it is true exactly when some emitted row
\* differs from the input row at the same position.
C5_FlagExact ==
  pc = "returned" =>
    (swapped_any <=> \E k \in 1..Len(out) : out[k] # rows[k])

\* a returned pass with the flag set in which an equal-cells row went
\* through the unconditional swap (its content unchanged) and another row
\* came out changed
C5_Witness ==
  /\ pc = "returned"
  /\ swapped_any
  /\ \E k \in 1..Len(out) :
       /\ rows[k] = RowEqual
       /\ out[k] = rows[k]
       /\ IsDataRow(k)
       /\ Covers(k)
       /\ ReversedHeaderAbove(k)
  /\ \E k \in 1..Len(out) : out[k] # rows[k]

-----------------------------------------------------------------------------
(* C6 *)

\* C6: shape preservation.  The output has one row per input row, in order;
\* each has the length of its input row and is that row or that row with
\* the cells at two positions exchanged.
C6_ShapePreserved ==
  pc = "returned" =>
    /\ Len(out) = Len(rows)
    /\ \A k \in 1..Len(rows) :
         /\ Len(out[k]) = Len(rows[k])
         /\ \/ out[k] = rows[k]
            \/ \E a, b \in 0..(Len(rows[k]) - 1) :
                 out[k] = Exchanged(rows[k], a, b)

\* a returned pass that exchanged two cells of a header and of a data row
C6_Witness ==
  /\ pc = "returned"
  /\ \E k \in 1..Len(out) : IsGoalieHeader(rows[k]) /\ out[k] # rows[k]
  /\ \E k \in 1..Len(out) : IsDataRow(k) /\ out[k] # rows[k]

-----------------------------------------------------------------------------
(* C7 *)

-----------------------------------------------------------------------------
(* C8 *)

\* C8: the pass never raises; a row of a Goalies section too short to cover
\* both tracked positions is emitted unchanged; in a section where no header
\* has established the positions no row is changed.
C8_NeverFails ==
  /\ pc # "raised"
  /\ pc = "returned" =>
       \A k \in 1..Len(out) :
         /\ (IsDataRow(k) /\ ~Covers(k)) => out[k] = rows[k]
         /\ ( /\ InGoaliesSpan(k)
              /\ ~IsGoalieHeader(rows[k])
              /\ LastHeader(k) = 0 ) => out[k] = rows[k]

\* a returned pass with an inverted row below a "Pos" row lacking W-G, and
\* an empty row below a real header
C8_Witness ==
  /\ pc = "returned"
  /\ \E k \in 2..Len(out) :
       /\ rows[k - 1] = ShortHeader
       /\ rows[k] = RowInverted
       /\ InGoaliesSpan(k)
       /\ LastHeader(k) = 0
  /\ \E k \in 1..Len(out) :
       rows[k] = EmptyRow /\ IsDataRow(k)

-----------------------------------------------------------------------------
(* C9 *)

\* what write_csv_rows is asked to put at f: the normalized original rows
NewContent(f) == Some(swap_goalie_columns_in_rows(orig[f][1]).out)

InWrite == mpc \in {"open_tmp", "write_rows", "replace"}

\* C9: atomic replace.  At every step of a run, a failed one included,
\* every final path holds its complete original content or the complete new
\* content; while the staging file is being written, and after a failure
\* before the rename, the final path still holds the original content.
C9_AtomicReplace ==
  mpc # "idle" =>
    /\ \A f \in Names :
         \/ fs[f] = orig[f]
         \/ orig[f] # None /\ fs[f] = NewContent(f)
    /\ (InWrite \/ (mpc = "error" /\ path # <<>>)) => fs[path] = orig[path]

\* a write failed with the staging file partly written, after an earlier
\* file of the run had been replaced by its new content
C9_Witness ==
  /\ mpc = "error"
  /\ fs[TmpPath(path)] # None
  /\ Len(fs[TmpPath(path)][1]) \in 1..(Len(updated) - 1)
  /\ fs[path] = orig[path]
  /\ NewContent(path) # orig[path]
  /\ \E f \in Names : fs[f] # orig[f] /\ fs[f] = NewContent(f)

-----------------------------------------------------------------------------
(* C10 *)

\* the files main examines: present, matched by the glob, passing the filters
Candidates ==
  {f \in Names : orig[f] # None /\ EndsWithCsv(f) /\ IsCandidate(f)}

\* the normalizer reports a change for the file's original rows
ReportsChange(f) == swap_goalie_columns_in_rows(orig[f][1]).swapped

WrittenSet == {written[k] : k \in 1..Len(written)}

\* C10: write_csv_rows is only ever entered for, and only ever replaces, a
\* candidate file for which the normalizer reported a change; no other final
\* path changes; modified <= examined; and when main completes normally
\* every such candidate has been written exactly once, the examined count
\* is the number of candidates, and the modified count the number of files
\* written, and these are the two counts printed.
C10_WrittenIffChanged ==
  mpc # "idle" =>
    /\ \A f \in WrittenSet : f \in Candidates /\ ReportsChange(f)
    /\ InWrite => (path \in Candidates /\ ReportsChange(path))
    /\ \A f \in Names : fs[f] # orig[f] => f \in WrittenSet
    /\ changed <= checked
    /\ mpc = "done" =>
         /\ WrittenSet = {f \in Candidates : ReportsChange(f)}
         /\ Len(written) = Cardinality(WrittenSet)
         /\ checked = Cardinality(Candidates)
         /\ changed = Len(written)
         /\ printed = Some(<<checked, changed>>)

\* a completed run over a folder holding a candidate that changed, a
\* candidate that did not, and a non-candidate whose rows would have changed
C10_Witness ==
  /\ mpc = "done"
  /\ \E f \in Candidates : ReportsChange(f) /\ fs[f] # orig[f]
  /\ \E f \in Candidates : ~ReportsChange(f) /\ fs[f] = orig[f]
  /\ \E f \in Names \ Candidates :
       orig[f] # None /\ ReportsChange(f) /\ fs[f] = orig[f]
  /\ changed < checked

-----------------------------------------------------------------------------
(* C11 *)

\* the season range the module docstring states: "seasons 2014-2024"
DocSeasonMin == 2014
DocSeasonMax == 2024

\* <regular|playoffs>-<startYear>-<endYear>.csv with the start year in the
\* documented range
InDocumentedRange(f) ==
  LET parsed == parse_season_from_filename(f)
  IN  /\ parsed # None
      /\ DocSeasonMin <= parsed[1][2]
      /\ parsed[1][2] <= DocSeasonMax

\* C11: main enters write_csv_rows for, and replaces, only files named
\* <regular|playoffs>-<startYear>-<endYear>.csv whose start year lies in
\* 2014..2024; no other final path changes, and a completed run has examined
\* no more files than the folder holds in that range.
C11_DocumentedSeasons ==
  mpc # "idle" =>
    /\ \A f \in WrittenSet : InDocumentedRange(f)
    /\ InWrite => InDocumentedRange(path)
    /\ \A f \in Names : fs[f] # orig[f] => InDocumentedRange(f)
    /\ mpc = "done" =>
         checked <= Cardinality({f \in Names :
                                   orig[f] # None /\ InDocumentedRange(f)})

-----------------------------------------------------------------------------
(* C12 *)

\* C12: when the team directory is absent, main does nothing but raise
\* SystemExit: the run is only ever at its start or stopped by the fatal
\* error, no file has been listed, read, normalized or written, the file
\* system is as it was, and no summary counts are printed.
C12_MissingFolderFatal ==
  (mpc # "idle" /\ ~dir_exists) =>
    /\ mpc \in {"start", "exit"}
    /\ fs = orig
    /\ paths = <<>>
    /\ path = <<>>
    /\ updated = <<>>
    /\ written = <<>>
    /\ checked = 0
    /\ changed = 0
    /\ printed = None

\* main has stopped with the fatal error on a missing team directory
C12_Witness ==
  /\ mpc = "exit"
  /\ ~dir_exists
  /\ printed = None

-----------------------------------------------------------------------------
(* C13 *)

\* C13: global swap mode is scoped to one section.  At every step of the
\* pass the mode is active only if a reversed header has been processed
\* since the most recent "Goalies" or "Skaters" marker; after a marker it is
\* inactive until a reversed header is seen again.
C13_ModeScopedToSection ==
  (pc \in {"loop", "returned"} /\ did_global_column_swap) =>
    \E j \in (MarkerAtOrAbove(Len(rows)) + 1)..Len(rows) :
      /\ IsGoalieHeader(rows[j])
      /\ HeaderReversed(rows[j])
      /\ InGoaliesSpan(j)

-----------------------------------------------------------------------------
(* C14 *)

\* the rows iterated so far end inside a Goalies section
EndsInGoalies ==
  /\ MarkerAtOrAbove(Len(rows)) > 0
  /\ IsGoaliesMarker(rows[MarkerAtOrAbove(Len(rows))])

\* C14: index scoping.  At every step of the pass in_goalies tells whether
\* the most recent marker is "Goalies", and a column index is known only
\* inside a Goalies section after a header row seen since that marker; and
\* the row just processed, when it lies outside a Goalies section or between
\* a "Goalies" marker and the section's first header, has been emitted
\* identical to its input row.
C14_IndexScoping ==
  pc = "loop" =>
    /\ in_goalies <=> EndsInGoalies
    /\ (gp_idx # None \/ wg_idx # None) =>
         (in_goalies /\ HeaderAtOrAbove(Len(rows)) > 0)
    /\ Len(out) = Len(rows)
    /\ Len(rows) > 0 =>
         LET k == Len(rows)
         IN  ( \/ ~InGoaliesSpan(k)
               \/ ~IsGoalieHeader(rows[k]) /\ LastHeader(k) = 0 )
             => out[k] = rows[k]

\* a returned pass in which an earlier Goalies section established the
\* indices and an inverted row came, unchanged, right after the next
\* "Goalies" marker, before any header of the new section
C14_Witness ==
  /\ pc = "returned"
  /\ \E k \in 3..Len(out) :
       /\ rows[k] = RowInverted
       /\ out[k] = rows[k]
       /\ InGoaliesSpan(k)
       /\ LastHeader(k) = 0
       /\ \E j \in 1..(LastMarker(k) - 1) :
            IsGoalieHeader(rows[j]) /\ InGoaliesSpan(j)

-----------------------------------------------------------------------------
(* C15 *)

\* header rows with repeated "GP" or "W-G" cells and other cells between
HeaderShapes ==
  { CanonicalHeader, ReversedHeader,
    <<sPos, sWG, sGP, sWG>>, <<sPos, sWG, sWG, sGP>>,
    <<sPos, sWG, sGP, sGP>>, <<sPos, sGP, sGP, sWG>>,
    <<sPos, sG, sWG, sTotals, sGP>>, <<sPos, sG, sGP, sTotals, sWG>> }

\* the header branch has left GP before W-G in the emitted row e and the
\* remembered indices g < w on those two cells
HeaderCanonical(e, g, w) ==
  /\ g # None
  /\ w # None
  /\ g[1] < w[1]
  /\ IndexOK(e, g[1]) /\ Cell(e, g[1]) = sGP
  /\ IndexOK(e, w[1]) /\ Cell(e, w[1]) = sWG
  /\ Index(e, sGP) < Index(e, sWG)

\* C15: canonical header on output.  At every step gp_idx and wg_idx are
\* both known or both unknown; right after a header row of a Goalies
\* section is processed, the header row emitted for it has its first "GP"
\* before its first "W-G", gp_idx < wg_idx, and it holds "GP" at gp_idx and
\* "W-G" at wg_idx; the same holds for a header row of any of the shapes
\* above processed at the start of a Goalies section.
C15_CanonicalHeaderOut ==
  /\ pc = "loop" =>
       /\ (gp_idx = None) <=> (wg_idx = None)
       /\ ( /\ Len(rows) > 0
            /\ IsGoalieHeader(rows[Len(rows)])
            /\ InGoaliesSpan(Len(rows)) )
          => HeaderCanonical(out[Len(out)], gp_idx, wg_idx)
  /\ (pc = "loop" /\ in_goalies /\ Len(rows) <= 2) =>
       \A h \in HeaderShapes :
         LET s == GoalieHeader(Locals, h)
         IN  HeaderCanonical(s.out[Len(s.out)], s.gp_idx, s.wg_idx)

\* a reversed header has just been processed: it was emitted as GP, W-G and
\* the indices point at the exchanged cells
C15_Witness ==
  /\ pc = "loop"
  /\ Len(rows) > 1
  /\ rows[Len(rows)] = ReversedHeader
  /\ InGoaliesSpan(Len(rows))
  /\ out[Len(out)] = CanonicalHeader
  /\ gp_idx = Some(1)
  /\ wg_idx = Some(2)

-----------------------------------------------------------------------------
(* C16 *)

\* C16: post-condition of the per-row correction.  Right after a data row
\* of a Goalies section is processed with both indices known and inside the
\* row, global swap mode inactive, the row emitted for it, when its cells at
\* gp_idx and wg_idx both have an integer prefix, has its W-G prefix <= its
\* GP prefix.
C16_WinsWithinGames ==
  ( /\ pc = "loop"
    /\ ~did_global_column_swap
    /\ gp_idx # None
    /\ wg_idx # None
    /\ Len(rows) > 0
    /\ IsDataRow(Len(rows)) )
  => LET e == out[Len(out)]
     IN  ( /\ IndexOK(e, gp_idx[1])
           /\ IndexOK(e, wg_idx[1])
           /\ HasIntPrefix(Cell(e, gp_idx[1]))
           /\ HasIntPrefix(Cell(e, wg_idx[1])) )
         => parse_int_prefix(Cell(e, wg_idx[1]))[1]
              <= parse_int_prefix(Cell(e, gp_idx[1]))[1]

\* a returned pass, no reversed header in it, in which an inverted row was
\* exchanged and a row with a composite W-G cell was left as it came
C16_Witness ==
  /\ pc = "returned"
  /\ ~ReversedHeaderAtOrAbove(Len(rows))
  /\ \E k, m \in 1..Len(out) :
       /\ rows[k] = RowInverted
       /\ IsDataRow(k)
       /\ out[k] = Exchanged(rows[k], LowIdx(k), HighIdx(k))
       /\ out[k] # rows[k]
       /\ rows[m] = RowValid
       /\ IsDataRow(m)
       /\ out[m] = rows[m]

-----------------------------------------------------------------------------
(* C17 *)

\* a swap is applied to row k: a reversed header of a Goalies section, or a
\* data row covering both tracked positions that is either processed in
\* global swap mode or has both integer prefixes with W-G above GP
SwapApplies(k) ==
  /\ InGoaliesSpan(k)
  /\ IF IsGoalieHeader(rows[k])
       THEN HeaderReversed(rows[k])
       ELSE /\ LastHeader(k) > 0
            /\ Covers(k)
            /\ \/ ReversedHeaderAbove(k)
               \/ LET gp_val == parse_int_prefix(Cell(rows[k], LowIdx(k)))
                      wg_val == parse_int_prefix(Cell(rows[k], HighIdx(k)))
                  IN  gp_val # None /\ wg_val # None /\ wg_val[1] > gp_val[1]

\* C17: copy-on-write.  At every step the row objects of the argument hold
\* the cells they came with and out holds one object per row processed;
\* the object appended for the row just processed is the argument's own row
\* object, with its cells, when no swap was applied to the row, and the
\* object a fresh row[:] created for that position when a swap was applied.
C17_CopyOnWrite ==
  pc = "loop" =>
    /\ rows_now = rows
    /\ Len(out_ref) = Len(rows)
    /\ Len(out) = Len(rows)
    /\ Len(rows) > 0 =>
         LET k == Len(rows)
         IN  /\ out_ref[k] = IF SwapApplies(k) THEN CopyOf(k) ELSE InputRow(k)
             /\ out_ref[k] = InputRow(k) => out[k] = rows_now[k]

\* a returned pass that emitted an input row object as it was, a copy with
\* exchanged cells, and a copy of an equal-cells row whose content is that
\* of the input row
C17_Witness ==
  /\ pc = "returned"
  /\ \E k \in 1..Len(out) :
       IsDataRow(k) /\ out_ref[k] = InputRow(k)
  /\ \E k \in 1..Len(out) :
       IsDataRow(k) /\ out_ref[k] = CopyOf(k) /\ out[k] # rows[k]
  /\ \E k \in 1..Len(out) :
       rows[k] = RowEqual /\ out_ref[k] = CopyOf(k) /\ out[k] = rows[k]

====
